---- MODULE Spec2Model ----
(***************************************************************************)
(* Model of the statistical routines of mlos_explorer and of the dashboard *)
(* (src/mlos_explorer/visualization/statistical.py, src/frontend.py).      *)
(*                                                                         *)
(* The state is the caller's dataframe (one row per trial: the grouping    *)
(* column and the target column), the names of its columns, the last call  *)
(* made on it, with its arguments, the frame it was given and its outcome  *)
(* (cur), the store of st.cache_data for get_experiments (cache) and what  *)
(* the last run of the dashboard script showed (page). The Service objects *)
(* of mlos_bench/environment/base_service.py and their registries are in    *)
(* heap.                                                                   *)
(*                                                                         *)
(* Numbers: p-values and alpha are in thousandths (0.05 is 50).            *)
(***************************************************************************)
EXTENDS Integers, Sequences, FiniteSets

VARIABLES df, cur, columns, cache, page, heap

vars == <<df, cur, columns, cache, page, heap>>

\* ------------------------------------------------------------------ bounds

\* The largest number of rows (trials) of a dataframe.
MaxRows == 3

\* The largest number of trials of the experiment the dashboard shows.
MaxTrials == 2

\* The largest number of Service objects constructed.
MaxServices == 2

\* ------------------------------------------------------ values of the cells

\* A cell of the target column.
\*   num    : a finite float                     (v is its value)
\*   nan    : a missing value (NaN / None)
\*   inf    : an infinite float
\*   str    : a string that is no number, such as "abc"
\*   numstr : a string that reads as a number, such as "2" (v is that number)
Num(n) == [k |-> "num", v |-> n]
NaNCell == [k |-> "nan", v |-> 0]
InfCell == [k |-> "inf", v |-> 0]
StrCell == [k |-> "str", v |-> 0]
NumStr(n) == [k |-> "numstr", v |-> n]

Nums == {1, 2}

\* The cells of the frames of this model (a string that reads as a number
\* is left out: like any string it makes the column an object column).
Cells == {Num(n) : n \in Nums} \cup {NaNCell, InfCell, StrCell}

\* The values of the grouping column: configuration ids, or a missing value.
NaNGroup == "nan"
ConfigIds == {"c1", "c2", "c3"}

\* A row: a trial of a configuration with any cell as its target, or a trial
\* whose grouping value is missing, with a valid target.
Rows == [grp : ConfigIds, val : Cells] \cup [grp : {NaNGroup}, val : {Num(1)}]

DataFrames == UNION {[1..n -> Rows] : n \in 0..MaxRows}

\* ----------------------------------------------------------------- helpers

Range(s) == {s[i] : i \in DOMAIN s}

RECURSIVE Sum(_)
Sum(s) == IF s = <<>> THEN 0 ELSE Head(s) + Sum(Tail(s))

Abs(n) == IF n < 0 THEN -n ELSE n

Sign(n) == IF n < 0 THEN -1 ELSE IF n > 0 THEN 1 ELSE 0

\* ------------------------------------------------- pandas / numpy operations

\* df.dropna(subset=[result_col]): the rows whose target cell is not missing.
DropNa(d) == SelectSeq(d, LAMBDA r : r.val.k # "nan")

\* The dtype of the target column is object when it holds a string, float64
\* otherwise. Dropping rows does not change it.
ObjectDtype(d) == \E i \in DOMAIN d : d[i].val.k \in {"str", "numstr"}

\* np.isfinite on a float64 cell: false for NaN and for an infinity.
IsFinite(c) == c.k = "num"

\* Mutant: the np.isfinite filter of line 15 left out.
FiniteRowsKeepsInf(d) == d

\* df[np.isfinite(df[result_col])] on a float64 column.
FiniteRows(d) == SelectSeq(d, LAMBDA r : IsFinite(r.val))

\* pd.to_numeric(..., errors="coerce") on one cell: a string that reads as a
\* number becomes that number, any other string becomes NaN.
ToNumeric(c) ==
    CASE c.k = "numstr" -> Num(c.v)
      [] c.k = "str" -> NaNCell
      [] OTHER -> c

\* df[col] = pd.to_numeric(df[col], errors="coerce")
Coerce(d) == [i \in DOMAIN d |-> [d[i] EXCEPT !.val = ToNumeric(@)]]

\* Series.unique(): the distinct values in order of first appearance; all
\* missing values count as one value.
RECURSIVE Unique(_)
Unique(s) ==
    IF s = <<>> THEN <<>>
    ELSE LET u == Unique(SubSeq(s, 1, Len(s) - 1))
             x == s[Len(s)]
         IN IF x \in Range(u) THEN u ELSE Append(u, x)

GroupColumn(d) == [i \in DOMAIN d |-> d[i].grp]

\* df[group_col] == cfg, element by element: a missing value equals nothing,
\* itself included.
GroupEq(g, cfg) == g # NaNGroup /\ cfg # NaNGroup /\ g = cfg

\* df.loc[df[group_col] == cfg, result_col], as the sequence of its numbers.
RECURSIVE Sample(_, _)
Sample(d, cfg) ==
    IF d = <<>> THEN <<>>
    ELSE LET rest == Sample(Tail(d), cfg)
         IN IF GroupEq(Head(d).grp, cfg) THEN <<Head(d).val>> \o rest ELSE rest

Values(cells) == [i \in DOMAIN cells |-> cells[i].v]

\* ------------------------------------------------------- scipy.stats calls
\* scipy is not part of the repository. What the tests return is a real
\* number, which the model does not compute: a statistic is kept by its
\* exactly computable part, and a p-value is NaN, 0 or 1 where the test's
\* definition fixes it and otherwise a fixed function of the two samples,
\* symmetric in them, whose values lie around the significance levels.

PNaN == [nan |-> TRUE, v |-> 0]
P(n) == [nan |-> FALSE, v |-> n]

PTable == <<49, 50, 51>>

MeanDiff(x, y) == Sum(x) * Len(y) - Sum(y) * Len(x)

SomePValue(x, y) ==
    P(PTable[((Abs(MeanDiff(x, y)) + Len(x) + Len(y)) % Len(PTable)) + 1])

Constant(x) == \A i, j \in DOMAIN x : x[i] = x[j]

\* ttest_ind(x, y, equal_var=False, nan_policy="omit"): Welch's t-test. With
\* fewer than two observations in a sample the variance, the statistic and
\* the p-value are NaN; with two constant samples the statistic is 0/0 or an
\* infinity. The statistic is kept as its sign.
WelchStatistic(x, y) ==
    IF Len(x) < 2 \/ Len(y) < 2 \/ (Constant(x) /\ Constant(y) /\ MeanDiff(x, y) = 0)
    THEN [test |-> "welch", nan |-> TRUE, v |-> 0]
    ELSE [test |-> "welch", nan |-> FALSE, v |-> Sign(MeanDiff(x, y))]

WelchPValue(x, y) ==
    IF WelchStatistic(x, y).nan THEN PNaN
    ELSE IF Constant(x) /\ Constant(y) THEN P(0)
    ELSE IF MeanDiff(x, y) = 0 THEN P(1000)
    ELSE SomePValue(x, y)

\* mannwhitneyu(x, y, alternative="two-sided"): the statistic is U of the
\* first sample, the number of pairs with x > y plus half the ties; twice
\* its value is kept. When U is at its mean the p-value is 1.
TwiceU(x, y) ==
    Sum([i \in 1..(Len(x) * Len(y)) |->
            LET a == x[((i - 1) \div Len(y)) + 1]
                b == y[((i - 1) % Len(y)) + 1]
            IN IF a > b THEN 2 ELSE IF a = b THEN 1 ELSE 0])

MannWhitneyStatistic(x, y) == [test |-> "mwu", nan |-> FALSE, v |-> TwiceU(x, y)]

MannWhitneyPValue(x, y) ==
    IF TwiceU(x, y) = Len(x) * Len(y) THEN P(1000) ELSE SomePValue(x, y)

\* pval < alpha on floats: false when the p-value is NaN.
Less(p, alpha) == ~p.nan /\ p.v < alpha

\* ------------------------------------------------ run_pairwise_stat_tests

\* alpha's default, 0.05.
DefaultAlpha == 50

Alphas == {10, DefaultAlpha}

TestTypes == {"ttest", "mannwhitney"}

\* Lines 14-16: the local frame the routine works on. np.isfinite has no
\* loop for an object column and raises TypeError, before to_numeric runs;
\* on a float64 column to_numeric changes nothing.
PairwiseFrame(d) ==
    LET d1 == DropNa(d)
    IN IF ObjectDtype(d1)
       THEN [raised |-> TRUE, frame |-> <<>>]
       ELSE [raised |-> FALSE, frame |-> Coerce(FiniteRows(d1))]

\* Mutant: np.unique(df[group_col]) in place of Series.unique(): the values
\* sorted instead of in order of first appearance.
ConfigsSorted(frame) ==
    SelectSeq(<<"c1", "c2", "c3", NaNGroup>>,
              LAMBDA g : g \in Range(GroupColumn(frame)))

\* Line 18: configs = df[group_col].unique()
Configs(frame) == Unique(GroupColumn(frame))

\* Line 27: if data_i.empty or data_j.empty: continue
SkipPair(data_i, data_j) == data_i = <<>> \/ data_j = <<>>

\* Mutant: Welch's test only when asked for "ttest", Mann-Whitney for
\* every other test_type.
TestResultByTtest(test_type, x, y) ==
    IF test_type = "ttest"
    THEN [stat |-> WelchStatistic(x, y), pval |-> WelchPValue(x, y)]
    ELSE [stat |-> MannWhitneyStatistic(x, y), pval |-> MannWhitneyPValue(x, y)]

\* Lines 30-33: the chosen test.
TestResult(test_type, x, y) ==
    IF test_type = "mannwhitney"
    THEN [stat |-> MannWhitneyStatistic(x, y), pval |-> MannWhitneyPValue(x, y)]
    ELSE [stat |-> WelchStatistic(x, y), pval |-> WelchPValue(x, y)]

\* Mutant: pval <= alpha.
IsSignificantOrEqual(pval, alpha) == ~pval.nan /\ pval.v <= alpha

\* Line 43: "Significant": pval < alpha
IsSignificant(pval, alpha) == Less(pval, alpha)

\* Lines 35-45: the record of one pair.
PairRecord(cfg_i, cfg_j, data_i, data_j, alpha, test_type) ==
    LET t == TestResult(test_type, Values(data_i), Values(data_j))
    IN [Config_A |-> cfg_i, Config_B |-> cfg_j,
        N_A |-> Len(data_i), N_B |-> Len(data_j),
        Test_Statistic |-> t.stat, pvalue |-> t.pval,
        Significant |-> IsSignificant(t.pval, alpha)]

RECURSIVE InnerLoop(_, _, _, _, _, _, _)

\* Mutant: the t-test branch also skips a pair with a sample of fewer than
\* two observations.
InnerLoopByTest(frame, configs, i, j, alpha, test_type, results) ==
    IF j > Len(configs) THEN results
    ELSE LET data_i == Sample(frame, configs[i])
             data_j == Sample(frame, configs[j])
         IN InnerLoop(frame, configs, i, j + 1, alpha, test_type,
                IF \/ SkipPair(data_i, data_j)
                   \/ (test_type # "mannwhitney"
                       /\ (Len(data_i) < 2 \/ Len(data_j) < 2))
                THEN results
                ELSE Append(results,
                        PairRecord(configs[i], configs[j], data_i, data_j,
                                   alpha, test_type)))

\* Lines 22-45: for j in range(i + 1, len(configs)), indices from 1 here.
InnerLoop(frame, configs, i, j, alpha, test_type, results) ==
    IF j > Len(configs) THEN results
    ELSE LET data_i == Sample(frame, configs[i])
             data_j == Sample(frame, configs[j])
         IN InnerLoop(frame, configs, i, j + 1, alpha, test_type,
                IF SkipPair(data_i, data_j) THEN results
                ELSE Append(results,
                        PairRecord(configs[i], configs[j], data_i, data_j,
                                   alpha, test_type)))

\* Line 21: for i in range(len(configs))
RECURSIVE OuterLoop(_, _, _, _, _, _)
OuterLoop(frame, configs, i, alpha, test_type, results) ==
    IF i > Len(configs) THEN results
    ELSE OuterLoop(frame, configs, i + 1, alpha, test_type,
            InnerLoop(frame, configs, i, i + 1, alpha, test_type, results))

\* Mutant: results kept in a list that outlives the call (a module-level
\* list, or a mutable default argument) and is never emptied.
StaleResults == IF cur.fn = "run_pairwise_stat_tests" THEN cur.result ELSE <<>>

\* Line 19: results = []
NewResults == <<>>

\* The routine: how it ends and the table it returns.
run_pairwise_stat_tests(d, alpha, test_type) ==
    LET f == PairwiseFrame(d)
    IN IF f.raised
       THEN [outcome |-> "raised", error |-> "TypeError", result |-> <<>>]
       ELSE [outcome |-> "returned", error |-> "none",
             result |-> OuterLoop(f.frame, Configs(f.frame), 1, alpha, test_type,
                                  NewResults)]

\* Mutant: the rows dropped in place (dropna(inplace=True)) instead of on a
\* copy.
CallerFrameFilteredInPlace(d) == DropNa(d)

\* Line 14 rebinds df to a copy: the caller's frame is the one passed in.
CallerFrameAfterPairwise(d) == d

\* -------------------------------------------- compare_score_distributions

\* The number of points of np.linspace(x_min, x_max, 500).
GridPoints == 500

\* The two configuration ids a caller selects.
IdPairs == {<<"c1", "c2">>, <<"c2", "c2">>}

MissingGroupMessage == "One or both configuration IDs do not exist in the DataFrame."

NoFigure == [made |-> FALSE, names |-> <<>>, x_min |-> 0, x_max |-> 0, points |-> 0]

\* Line 53: df[target_col] = pd.to_numeric(df[target_col], errors="coerce"),
\* an assignment to a column of the frame the caller passed.
CallerFrameAfterCompare(d) == Coerce(d)

\* Lines 55-56: df[df["tunable_config_id"] == id][target_col].dropna(), on the
\* coerced column. An infinity is not dropped.
ConfigData(d, id) == Sample(DropNa(Coerce(d)), id)

\* Mutant: "and" in place of "or".
MissingGroupDataBoth(data_1, data_2) == data_1 = <<>> /\ data_2 = <<>>

\* Line 58: if config_1_data.empty or config_2_data.empty
MissingGroupData(data_1, data_2) == data_1 = <<>> \/ data_2 = <<>>

\* gaussian_kde(data) raises ValueError for fewer than two elements or a
\* non-finite element, and LinAlgError for a constant sample (a singular
\* covariance); "none" when the estimate exists.
KdeError(data) ==
    IF Len(data) < 2 \/ (\E i \in DOMAIN data : data[i].k = "inf") THEN "ValueError"
    ELSE IF Constant(Values(data)) THEN "LinAlgError"
    ELSE "none"

SeqMin(x) == CHOOSE m \in Range(x) : \A n \in Range(x) : m <= n
SeqMax(x) == CHOOSE m \in Range(x) : \A n \in Range(x) : m >= n

\* Lines 64-81: the figure, one series per configuration on a shared grid.
Figure(data_1, data_2, id_1, id_2) ==
    [made |-> TRUE, names |-> <<id_1, id_2>>,
     x_min |-> SeqMin(Values(data_1) \o Values(data_2)),
     x_max |-> SeqMax(Values(data_1) \o Values(data_2)),
     points |-> GridPoints]

\* What the body of the function does from line 55 on: how it ends, the
\* figure it built if any. It is the same in both copies up to the way the
\* missing group and the figure are reported.
CompareBody(d, id_1, id_2) ==
    LET data_1 == ConfigData(d, id_1)
        data_2 == ConfigData(d, id_2)
    IN IF MissingGroupData(data_1, data_2)
       THEN [end |-> "missing", error |-> "ValueError", figure |-> NoFigure]
       ELSE IF KdeError(data_1) # "none"
       THEN [end |-> "kde", error |-> KdeError(data_1), figure |-> NoFigure]
       ELSE IF KdeError(data_2) # "none"
       THEN [end |-> "kde", error |-> KdeError(data_2), figure |-> NoFigure]
       ELSE [end |-> "figure", error |-> "none",
             figure |-> Figure(data_1, data_2, id_1, id_2)]

\* mlos_explorer's copy: raises ValueError for a missing group, returns the
\* figure otherwise.
compare_score_distributions(d, id_1, id_2) ==
    LET b == CompareBody(d, id_1, id_2)
    IN CASE b.end = "missing" ->
              [outcome |-> "raised", error |-> "ValueError",
               message |-> MissingGroupMessage, figure |-> NoFigure, st |-> <<>>]
         [] b.end = "kde" ->
              [outcome |-> "raised", error |-> b.error,
               message |-> "gaussian_kde", figure |-> NoFigure, st |-> <<>>]
         [] OTHER ->
              [outcome |-> "returned", error |-> "none",
               message |-> "", figure |-> b.figure, st |-> <<>>]

\* The dashboard's copy: st.error for a missing group, st.plotly_chart for
\* the figure. Both columns are present in the frames of this model, so the
\* check of line 746 passes.
frontend_compare_score_distributions(d, id_1, id_2) ==
    LET b == CompareBody(d, id_1, id_2)
    IN CASE b.end = "missing" ->
              [outcome |-> "returned", error |-> "none",
               message |-> "", figure |-> NoFigure,
               st |-> <<[call |-> "error", text |-> MissingGroupMessage]>>]
         [] b.end = "kde" ->
              [outcome |-> "raised", error |-> b.error,
               message |-> "gaussian_kde", figure |-> NoFigure, st |-> <<>>]
         [] OTHER ->
              [outcome |-> "returned", error |-> "none",
               message |-> "", figure |-> b.figure,
               st |-> <<[call |-> "plotly_chart", text |-> ""]>>]

\* ------------------------------------------------ columns, cache and page

\* The result column the user selects (a column whose name starts with
\* "result").
TargetCol == "result.score"

\* The columns of a results frame of storage that the dashboard reads.
AllColumns == {"trial_id", "tunable_config_id", TargetCol, "config.x"}

\* The panels of the dashboard, by the names of their tabs in the script.
Panels == {"tab1", "tab3", "tab4", "tab5", "tab6", "tab7", "tab8", "tab9"}

\* st.cache_data before the first call of get_experiments: nothing stored.
NoCache == [hit |-> FALSE, value |-> <<>>, st |-> <<>>]

\* The page before the script has run.
NoPage ==
    [backend |-> "none", list_request |-> "none", list_requests |-> 0,
     experiment_ids |-> <<>>, banner |-> <<>>, uncaught |-> "none",
     panels |-> [p \in Panels |-> "missing"], raised |-> {},
     pressed |-> "none", explain_request |-> "none", explanation |-> "",
     tab7 |-> <<>>, tab8 |-> <<>>, pairwise_calls |-> 0,
     storage |-> "unset", storage_st |-> <<>>, storage_read |-> FALSE,
     pairwise_table |-> <<>>, significant_pairs |-> <<>>]

\* ------------------------------------- Service (environment/base_service.py)

\* The names under which mix-in functions are registered: the name of a
\* mix-in, and the name of the attribute in which a Service keeps its
\* registry.
MixinNames == {"remote_exec", "_services"}

\* Two mix-in functions; both are called remote_exec (their __name__).
MixinFunctions == {"f", "g"}

__name__(fn) == "remote_exec"

\* The values of an attribute or of a dictionary entry: nothing, a mix-in
\* function, or a reference to the dictionary object with the given id.
Absent == [k |-> "absent", id |-> 0, fn |-> "none"]
Function(fn) == [k |-> "function", id |-> 0, fn |-> fn]
DictRef(id) == [k |-> "dict", id |-> id, fn |-> "none"]

\* A Python dict from names to mix-in functions, as a function over
\* MixinNames; the names bound to Absent are not keys of it.
EmptyDict == [name \in MixinNames |-> Absent]

Keys(d) == {name \in MixinNames : d[name] # Absent}

\* dict.update(other)
DictUpdate(d, other) ==
    [name \in MixinNames |-> IF other[name] # Absent THEN other[name] ELSE d[name]]

\* The dictionaries and lists a caller passes to register.
ServiceDicts ==
    {d \in [MixinNames -> {Absent} \cup {Function(fn) : fn \in MixinFunctions}] :
        d["_services"] # Absent => d["_services"] = Function("f")}

ServiceLists == {<<"f">>, <<"g">>, <<"f", "g">>, <<"g", "f">>}

\* The argument of register: a dict, a list of functions, or any other
\* object (here a function, which is what export() of a Service whose
\* _services attribute was overwritten returns).
DictArg(d) == [k |-> "dict", map |-> d, fns |-> <<>>]
ListArg(fns) == [k |-> "list", map |-> EmptyDict, fns |-> fns]
FunctionArg == [k |-> "function", map |-> EmptyDict, fns |-> <<>>]

RegisterArgs ==
    {DictArg(d) : d \in ServiceDicts} \cup {ListArg(fns) : fns \in ServiceLists}

\* Line 92: {svc.__name__: svc for svc in services}; a later function of
\* the list replaces an earlier one of the same name.
RECURSIVE ByName(_, _)
ByName(fns, d) ==
    IF fns = <<>> THEN d
    ELSE ByName(Tail(fns), [d EXCEPT ![__name__(Head(fns))] = Function(Head(fns))])

\* The configurations passed to a constructor.
ServiceConfigs == {"None", "{'vmName': 'x'}"}

\* parent=None
NoParent == 0

ServiceIds == 1..MaxServices

\* An object that does not exist, and the heap before any Service is
\* constructed: count objects, their fields, and the dictionary objects
\* (dicts[i] is the one created by the constructor of object i).
NoObject == [config |-> "none", _parent |-> NoParent, __dict__ |-> EmptyDict]

NoHeap ==
    [count |-> 0,
     obj |-> [s \in ServiceIds |-> NoObject],
     dicts |-> [s \in ServiceIds |-> EmptyDict]]

\* self._services: the instance attribute.
ServicesAttr(h, s) == h.obj[s].__dict__["_services"]

\* Lines 101-110: export() returns self._services, the object itself.
export(h, s) == ServicesAttr(h, s)

\* The contents of what export() returns when it is a dictionary.
Exported(h, s) == h.dicts[export(h, s).id]

\* Lines 82-99: register(services) on object s.
\*   line 91-92: anything that is not a dict is iterated; a function is not
\*               iterable (TypeError);
\*   line 98:    self._services.update(services); a function has no update
\*               (AttributeError);
\*   line 99:    self.__dict__.update(self._services): every key of the
\*               registry becomes an instance attribute, the key _services
\*               included.
register(h, s, services) ==
    IF services.k = "function"
    THEN [outcome |-> "raised", error |-> "TypeError", heap |-> h]
    ELSE IF ServicesAttr(h, s).k # "dict"
    THEN [outcome |-> "raised", error |-> "AttributeError", heap |-> h]
    ELSE LET given == IF services.k = "dict" THEN services.map
                      ELSE ByName(services.fns, EmptyDict)
             id == ServicesAttr(h, s).id
             updated == DictUpdate(h.dicts[id], given)
         IN [outcome |-> "returned", error |-> "none",
             heap |-> [h EXCEPT !.dicts[id] = updated,
                                !.obj[s].__dict__ = DictUpdate(@, updated)]]

\* What parent.export() is as an argument of register (line 73).
ExportAsArg(h, parent) ==
    IF export(h, parent).k = "dict" THEN DictArg(Exported(h, parent))
    ELSE FunctionArg

\* Mutant: the child keeps the parent's registry itself
\* (self._services = parent.export()) instead of a dictionary of its own.
ParentsDict(h, s, parent) ==
    IF parent # NoParent /\ export(h, parent).k = "dict"
    THEN export(h, parent).id ELSE s

\* Line 70: self._services = {}: a new dictionary object.
NewDict(h, s, parent) == s

\* Mutant: the constructor ignores the parent.
WithoutParent(h, s, parent) == [outcome |-> "returned", error |-> "none", heap |-> h]

\* Lines 72-73: if parent: self.register(parent.export())
RegisterParent(h, s, parent) ==
    IF parent # NoParent
    THEN register(h, s, ExportAsArg(h, parent))
    ELSE [outcome |-> "returned", error |-> "none", heap |-> h]

\* Lines 55-73: Service(config, parent). The new object is the next one of
\* the heap; when register raises, the exception leaves the constructor and
\* no object comes to exist.
__init__(h, config, parent) ==
    LET s == h.count + 1
        id == NewDict(h, s, parent)
        h1 == [h EXCEPT !.count = s,
                        !.obj[s] = [config |-> IF config = "None" THEN "{}" ELSE config,
                                    _parent |-> parent,
                                    __dict__ |-> [EmptyDict EXCEPT !["_services"] = DictRef(id)]],
                        !.dicts[s] = EmptyDict]
        r == RegisterParent(h1, s, parent)
    IN IF r.outcome = "raised"
       THEN [outcome |-> "raised", error |-> r.error, heap |-> h, instance |-> 0]
       ELSE [outcome |-> "returned", error |-> "none", heap |-> r.heap, instance |-> s]

\* The classes of the interpreter that Service.new can be pointed at, and
\* the class each derives from: Service, a class derived from it, and a
\* class that is not.
Classes == {"Service", "AzureVMService", "JSONDecoder"}

Base(class) == IF class = "AzureVMService" THEN "Service" ELSE "object"

\* Mutant: the assertion compares the wrong way round.
issuperclass(class, cls) == cls = class \/ Base(cls) = class

issubclass(class, cls) == class = cls \/ Base(class) = cls

\* The fully qualified names passed to Service.new and what lines 43-49
\* make of them: import_module raises for a module that does not exist,
\* getattr for a name the module does not have; the attribute found is a
\* class or, for json.dumps, a function.
ClassNames ==
    {"mlos_bench.environment.base_service.Service",
     "mlos_bench.environment.azure.AzureVMService",
     "json.JSONDecoder", "json.dumps", "json.missing", "no_such_module.X"}

Resolve(class_name) ==
    CASE class_name = "mlos_bench.environment.base_service.Service" ->
            [error |-> "none", class |-> "Service"]
      [] class_name = "mlos_bench.environment.azure.AzureVMService" ->
            [error |-> "none", class |-> "AzureVMService"]
      [] class_name = "json.JSONDecoder" ->
            [error |-> "none", class |-> "JSONDecoder"]
      [] class_name = "json.dumps" ->
            [error |-> "none", class |-> "function"]
      [] class_name = "json.missing" ->
            [error |-> "AttributeError", class |-> "none"]
      [] OTHER ->
            [error |-> "ModuleNotFoundError", class |-> "none"]

\* Lines 19-53: cls.new(class_name, config, parent). issubclass raises
\* TypeError when its first argument is not a class; the assert statement
\* raises AssertionError when the class found is not derived from cls
\* (the interpreter runs with assertions on, its default); only then is
\* the class called. The classes derived from Service take its constructor.
new(h, cls, class_name, config, parent) ==
    LET found == Resolve(class_name)
        failed(error) == [outcome |-> "raised", error |-> error, heap |-> h,
                          instance |-> 0, class |-> "none"]
    IN IF found.error # "none" THEN failed(found.error)
       ELSE IF found.class \notin Classes THEN failed("TypeError")
       ELSE IF ~issubclass(found.class, cls) THEN failed("AssertionError")
       ELSE LET r == __init__(h, config, parent)
            IN [outcome |-> r.outcome, error |-> r.error, heap |-> r.heap,
                instance |-> r.instance,
                class |-> IF r.outcome = "returned" THEN found.class ELSE "none"]

\* The last call made on the services.
NoServiceCall ==
    [fn |-> "none", svc |-> 0, cls |-> "none", class_name |-> "none",
     config |-> "none", parent |-> NoParent, services |-> FunctionArg,
     outcome |-> "none", error |-> "none", instance |-> 0, class |-> "none"]

InitService ==
    /\ heap = NoHeap
    /\ cur = NoServiceCall
    /\ df = <<>>
    /\ columns = AllColumns
    /\ cache = NoCache
    /\ page = NoPage

\* Service(config, parent) with no parent or with a Service constructed
\* before.
Construct ==
    /\ heap.count < MaxServices
    /\ \E config \in ServiceConfigs, parent \in 0..heap.count :
          \E r \in {__init__(heap, config, parent)} :
             /\ heap' = r.heap
             /\ cur' = [NoServiceCall EXCEPT !.fn = "__init__", !.cls = "Service",
                                             !.config = config, !.parent = parent,
                                             !.outcome = r.outcome, !.error = r.error,
                                             !.instance = r.instance,
                                             !.class = IF r.outcome = "returned"
                                                       THEN "Service" ELSE "none"]
    /\ UNCHANGED <<df, columns, cache, page>>

\* svc.register(services) on a Service that exists.
Register ==
    /\ \E s \in 1..heap.count, services \in RegisterArgs :
          \E r \in {register(heap, s, services)} :
             /\ heap' = r.heap
             /\ cur' = [NoServiceCall EXCEPT !.fn = "register", !.svc = s,
                                             !.services = services,
                                             !.outcome = r.outcome, !.error = r.error]
    /\ UNCHANGED <<df, columns, cache, page>>

\* cls.new(class_name, config, parent) on Service or on a class derived
\* from it.
New ==
    /\ heap.count < MaxServices
    /\ \E cls \in {"Service", "AzureVMService"}, class_name \in ClassNames,
          config \in ServiceConfigs, parent \in 0..heap.count :
          \E r \in {new(heap, cls, class_name, config, parent)} :
             /\ heap' = r.heap
             /\ cur' = [NoServiceCall EXCEPT !.fn = "new", !.cls = cls,
                                             !.class_name = class_name,
                                             !.config = config, !.parent = parent,
                                             !.outcome = r.outcome, !.error = r.error,
                                             !.instance = r.instance,
                                             !.class = r.class]
    /\ UNCHANGED <<df, columns, cache, page>>

NextService ==
    \/ Construct
    \/ Register
    \/ New

SpecService == InitService /\ [][NextService]_vars

\* ------------------------------------------------------------ the machine

NoCall ==
    [fn |-> "none", module |-> "none", alpha |-> 0, test_type |-> "none",
     config_id_1 |-> "none", config_id_2 |-> "none", input |-> <<>>,
     outcome |-> "none", error |-> "none", message |-> "",
     result |-> <<>>, figure |-> NoFigure, st |-> <<>>]

Init ==
    /\ df \in DataFrames
    /\ cur = NoCall
    /\ columns = AllColumns
    /\ cache = NoCache
    /\ page = NoPage
    /\ heap = NoHeap

\* A call of mlos_explorer's run_pairwise_stat_tests on the frame.
CallRunPairwiseStatTests ==
    \E alpha \in Alphas, test_type \in TestTypes :
        \E r \in {run_pairwise_stat_tests(df, alpha, test_type)} :
           /\ cur' = [NoCall EXCEPT !.fn = "run_pairwise_stat_tests",
                                    !.module = "mlos_explorer",
                                    !.alpha = alpha, !.test_type = test_type,
                                    !.input = df, !.outcome = r.outcome,
                                    !.error = r.error, !.result = r.result]
           /\ df' = CallerFrameAfterPairwise(df)
           /\ UNCHANGED <<columns, cache, page, heap>>

\* A call of mlos_explorer's compare_score_distributions on the frame.
CallCompareScoreDistributions ==
    \E ids \in IdPairs :
        \E r \in {compare_score_distributions(df, ids[1], ids[2])} :
           /\ cur' = [NoCall EXCEPT !.fn = "compare_score_distributions",
                                    !.module = "mlos_explorer",
                                    !.config_id_1 = ids[1], !.config_id_2 = ids[2],
                                    !.input = df, !.outcome = r.outcome,
                                    !.error = r.error, !.message = r.message,
                                    !.figure = r.figure, !.st = r.st]
           /\ df' = CallerFrameAfterCompare(df)
           /\ UNCHANGED <<columns, cache, page, heap>>

\* A call of the dashboard's compare_score_distributions on the frame.
CallFrontendCompareScoreDistributions ==
    \E ids \in IdPairs :
        \E r \in {frontend_compare_score_distributions(df, ids[1], ids[2])} :
           /\ cur' = [NoCall EXCEPT !.fn = "compare_score_distributions",
                                    !.module = "frontend",
                                    !.config_id_1 = ids[1], !.config_id_2 = ids[2],
                                    !.input = df, !.outcome = r.outcome,
                                    !.error = r.error, !.message = r.message,
                                    !.figure = r.figure, !.st = r.st]
           /\ df' = CallerFrameAfterCompare(df)
           /\ UNCHANGED <<columns, cache, page, heap>>

Next ==
    \/ CallRunPairwiseStatTests
    \/ CallCompareScoreDistributions
    \/ CallFrontendCompareScoreDistributions

Spec == Init /\ [][Next]_vars

\* ------------------------------------- the dashboard's plotting functions
\* The functions of src/frontend.py that take the frame fetched from
\* storage, and filter_valid_data of mlos_explorer. Each returns how it
\* ends, what it wrote on the page with st.*, and the caller's frame and its
\* columns after the call.

\* The cells and the rows of the frames the plotting functions are given.
PlotCells == {Num(1), Num(2), NaNCell, StrCell}

PlotConfigIds == {"c1", "c2"}

PlotRows == [grp : PlotConfigIds, val : PlotCells]

PlotFrames == UNION {[1..n -> PlotRows] : n \in 0..MaxRows}

\* The cells of a frame without the target column, and the grouping values
\* of a frame without "tunable_config_id": the column holds nothing.
NoColumnCell == NaNCell

NoColumnGroup == "c1"

ConfigOrTargetMessage ==
    "'tunable_config_id' or 'result.score' column not found in DataFrame."

TrialOrTargetMessage == "'trial_id' or 'result.score' column not found in DataFrame."

TargetMessage == "Target column 'result.score' not found in DataFrame."

ExperimentTargetMessage ==
    "The target column 'result.score' does not exist in experiment e1."

StError(text) == [call |-> "error", text |-> text]

StChart(call) == [call |-> call, text |-> ""]

Returned(st, d, cols) ==
    [outcome |-> "returned", error |-> "none", st |-> st,
     frame |-> d, columns |-> cols, result |-> <<>>]

RaisedAfter(error, st, d, cols) ==
    [outcome |-> "raised", error |-> error, st |-> st,
     frame |-> d, columns |-> cols, result |-> <<>>]

\* Lines 173, 646, 701, 746, 800:
\* if "tunable_config_id" not in df.columns or target_col not in df.columns
ConfigOrTargetAbsent(cols) == "tunable_config_id" \notin cols \/ TargetCol \notin cols

\* df[df["tunable_config_id"] == id] is empty.
NoRowsOf(d, id) == Sample(d, id) = <<>>

\* Lines 164-223. After the check the target column is coerced in place
\* (line 178); two box plots are drawn.
frontend_plot_whisker_plots(d, cols) ==
    IF ConfigOrTargetAbsent(cols)
    THEN Returned(<<StError(ConfigOrTargetMessage)>>, d, cols)
    ELSE Returned(<<StChart("plotly_chart"), StChart("plotly_chart")>>,
                  Coerce(d), cols)

\* Lines 691-728 and 790-828 (compare_whisker_plots and plot_violin_plot are
\* the same up to the chart): check, coercion in place (706, 805), the rows
\* of the two ids with their missing values kept (709-710), one chart.
TwoConfigsPlot(d, cols, id_1, id_2) ==
    IF ConfigOrTargetAbsent(cols)
    THEN Returned(<<StError(ConfigOrTargetMessage)>>, d, cols)
    ELSE IF NoRowsOf(Coerce(d), id_1) \/ NoRowsOf(Coerce(d), id_2)
    THEN Returned(<<StError(MissingGroupMessage)>>, Coerce(d), cols)
    ELSE Returned(<<StChart("plotly_chart")>>, Coerce(d), cols)

compare_whisker_plots(d, cols, id_1, id_2) == TwoConfigsPlot(d, cols, id_1, id_2)

plot_violin_plot(d, cols, id_1, id_2) == TwoConfigsPlot(d, cols, id_1, id_2)

\* Lines 736-787 with the check of line 746: the dashboard's
\* compare_score_distributions on a frame whose columns may be absent.
frontend_compare_score_distributions_cols(d, cols, id_1, id_2) ==
    IF ConfigOrTargetAbsent(cols)
    THEN Returned(<<StError(ConfigOrTargetMessage)>>, d, cols)
    ELSE LET r == frontend_compare_score_distributions(d, id_1, id_2)
         IN [outcome |-> r.outcome, error |-> r.error, st |-> r.st,
             frame |-> CallerFrameAfterCompare(d), columns |-> cols,
             result |-> <<>>]

\* Lines 637-688: check, coercion in place (651), two pyplot figures.
plot_config_scatter(d, cols) ==
    IF ConfigOrTargetAbsent(cols)
    THEN Returned(<<StError(ConfigOrTargetMessage)>>, d, cols)
    ELSE Returned(<<StChart("pyplot"), StChart("pyplot")>>, Coerce(d), cols)

\* Lines 583-634: the check is for "trial_id" and the target (592); coercion
\* in place (597), one pyplot figure.
plot_top_bottom_configs_scatter(d, cols) ==
    IF "trial_id" \notin cols \/ TargetCol \notin cols
    THEN Returned(<<StError(TrialOrTargetMessage)>>, d, cols)
    ELSE Returned(<<StChart("pyplot")>>, Coerce(d), cols)

\* df.sort_values(by=target_col) on a column that was not coerced: the
\* missing values are set aside and the others compared, and a string does
\* not compare with a float (TypeError).
SortRaises(d) ==
    \E i, j \in DOMAIN d : d[i].val.k = "str" /\ d[j].val.k \in {"num", "inf"}

\* Line 376: the columns whose name starts with "config.".
ConfigColumns(cols) == cols \cap {"config.x"}

\* Lines 364-398: the check is for the target only (365); the frame is
\* sorted into a new one (370), and for every config column
\* top_configs["tunable_config_id"] is read (382), a KeyError when the
\* column is absent.
plot_config_top_bottom(d, cols) ==
    IF TargetCol \notin cols
    THEN Returned(<<StError(TargetMessage)>>, d, cols)
    ELSE IF SortRaises(d)
    THEN RaisedAfter("TypeError", <<>>, d, cols)
    ELSE IF ConfigColumns(cols) # {} /\ "tunable_config_id" \notin cols
    THEN RaisedAfter("KeyError", <<>>, d, cols)
    ELSE Returned(<<StChart("pyplot")>>, d, cols)

\* Lines 131-158: no check. df[metric] is read and assigned (136), then the
\* frame is grouped by "tunable_config_id" (142).
plot_metric_percentiles(d, cols) ==
    IF TargetCol \notin cols
    THEN RaisedAfter("KeyError", <<>>, d, cols)
    ELSE IF "tunable_config_id" \notin cols
    THEN RaisedAfter("KeyError", <<>>, Coerce(d), cols)
    ELSE Returned(<<StChart("pyplot")>>, Coerce(d), cols)

\* The experiments selected for compare_multiple_experiments: none, or the
\* experiment whose results the frame is.
ExperimentSelections == {<<>>, <<"e1">>}

\* Lines 880-994 on the experiments selected. With none selected the two
\* empty figures are drawn and dropna(subset=[target_col]) on the empty
\* combined frame raises KeyError (973). Otherwise the first loop checks the
\* target (895), coerces in place (901) and reads "trial_id" (906); the
\* third loop adds the column "experiment_id" to the frame (962).
compare_multiple_experiments(experiment_ids, d, cols) ==
    IF experiment_ids = <<>>
    THEN RaisedAfter("KeyError", <<StChart("plotly_chart"), StChart("plotly_chart")>>,
                     d, cols)
    ELSE IF TargetCol \notin cols
    THEN Returned(<<StError(ExperimentTargetMessage)>>, d, cols)
    ELSE IF "trial_id" \notin cols
    THEN RaisedAfter("KeyError", <<>>, Coerce(d), cols)
    ELSE Returned(<<StChart("plotly_chart"), StChart("plotly_chart"),
                    StChart("plotly_chart"), StChart("plotly_chart")>>,
                  Coerce(d), cols \cup {"experiment_id"})

\* The default of benchmark_col (line 439).
BenchmarkCol == "results.latency_pct"

TrialTargetOrBenchmarkMessage ==
    "'trial_id', 'result.score', or 'results.latency_pct' column not found in DataFrame."

NoDataForPlottingMessage ==
    "No data available for plotting with target column 'result.score'."

\* Line 440: if "trial_id" not in df.columns or target_col not in df.columns
LineScatterColumnsAbsent(cols) == "trial_id" \notin cols \/ TargetCol \notin cols

\* Lines 439-461, plot_line_scatter_chart(df, target_col) with the default
\* benchmark column. df[["trial_id", target_col, benchmark_col]] raises
\* KeyError for a column that is not there; dropna drops the rows with a
\* missing target (trial_id and the benchmark are never missing here); the
\* selection is a new frame, so the caller's is not touched.
plot_line_scatter_chart(d, cols) ==
    IF LineScatterColumnsAbsent(cols)
    THEN Returned(<<StError(TrialTargetOrBenchmarkMessage)>>, d, cols)
    ELSE IF BenchmarkCol \notin cols
    THEN RaisedAfter("KeyError", <<>>, d, cols)
    ELSE IF DropNa(d) = <<>>
    THEN Returned(<<StError(NoDataForPlottingMessage)>>, d, cols)
    ELSE Returned(<<StChart("plotly_chart")>>, d, cols)

\* helpers.py lines 10-12:
\* df.dropna(subset=columns)[columns].apply(pd.to_numeric, errors="coerce")
\* with columns = [target]. The rows with a missing target are dropped, the
\* frame is cut to the column, and then the column is coerced. The result is
\* a new frame, of the cells of the target.
filter_valid_data(d, cols) ==
    IF TargetCol \notin cols
    THEN RaisedAfter("KeyError", <<>>, d, cols)
    ELSE [outcome |-> "returned", error |-> "none", st |-> <<>>,
          frame |-> d, columns |-> cols,
          result |-> [i \in DOMAIN DropNa(d) |-> ToNumeric(DropNa(d)[i].val)]]

\* The last call, in the specification of the plotting functions.
NoPlotCall ==
    [fn |-> "none", module |-> "none",
     config_id_1 |-> "none", config_id_2 |-> "none",
     input |-> <<>>, input_columns |-> {},
     outcome |-> "none", error |-> "none", st |-> <<>>, result |-> <<>>]

PlotCall(fn, module, id_1, id_2, r) ==
    [fn |-> fn, module |-> module, config_id_1 |-> id_1, config_id_2 |-> id_2,
     input |-> df, input_columns |-> columns,
     outcome |-> r.outcome, error |-> r.error, st |-> r.st, result |-> r.result]

\* A frame fetched from storage with any of the columns present.
InitPlots ==
    /\ df \in PlotFrames
    /\ columns \in SUBSET (AllColumns \cup {BenchmarkCol})
    /\ TargetCol \notin columns => \A i \in DOMAIN df : df[i].val = NoColumnCell
    /\ "tunable_config_id" \notin columns =>
          \A i \in DOMAIN df : df[i].grp = NoColumnGroup
    /\ cur = NoPlotCall
    /\ cache = NoCache
    /\ page = NoPage
    /\ heap = NoHeap

\* The call has ended as r says: the frame and its columns are what the
\* function left.
Called(fn, module, id_1, id_2, r) ==
    /\ cur' = PlotCall(fn, module, id_1, id_2, r)
    /\ df' = r.frame
    /\ columns' = r.columns
    /\ UNCHANGED <<cache, page, heap>>

CallPlotWhiskerPlots ==
    \E r \in {frontend_plot_whisker_plots(df, columns)} :
        Called("plot_whisker_plots", "frontend", "none", "none", r)

CallCompareWhiskerPlots ==
    \E ids \in IdPairs :
        \E r \in {compare_whisker_plots(df, columns, ids[1], ids[2])} :
            Called("compare_whisker_plots", "frontend", ids[1], ids[2], r)

CallPlotViolinPlot ==
    \E ids \in IdPairs :
        \E r \in {plot_violin_plot(df, columns, ids[1], ids[2])} :
            Called("plot_violin_plot", "frontend", ids[1], ids[2], r)

CallCompareScoreDistributionsOfDashboard ==
    \E ids \in IdPairs :
        \E r \in {frontend_compare_score_distributions_cols(df, columns,
                                                            ids[1], ids[2])} :
            Called("compare_score_distributions", "frontend", ids[1], ids[2], r)

CallPlotConfigScatter ==
    \E r \in {plot_config_scatter(df, columns)} :
        Called("plot_config_scatter", "frontend", "none", "none", r)

CallPlotTopBottomConfigsScatter ==
    \E r \in {plot_top_bottom_configs_scatter(df, columns)} :
        Called("plot_top_bottom_configs_scatter", "frontend", "none", "none", r)

CallPlotConfigTopBottom ==
    \E r \in {plot_config_top_bottom(df, columns)} :
        Called("plot_config_top_bottom", "frontend", "none", "none", r)

CallPlotMetricPercentiles ==
    \E r \in {plot_metric_percentiles(df, columns)} :
        Called("plot_metric_percentiles", "frontend", "none", "none", r)

CallCompareMultipleExperiments ==
    \E experiment_ids \in ExperimentSelections :
        \E r \in {compare_multiple_experiments(experiment_ids, df, columns)} :
            Called("compare_multiple_experiments", "frontend", "none", "none", r)

CallPlotLineScatterChart ==
    \E r \in {plot_line_scatter_chart(df, columns)} :
        Called("plot_line_scatter_chart", "frontend", "none", "none", r)

CallFilterValidData ==
    \E r \in {filter_valid_data(df, columns)} :
        Called("filter_valid_data", "mlos_explorer", "none", "none", r)

NextPlots ==
    \/ CallPlotWhiskerPlots
    \/ CallCompareWhiskerPlots
    \/ CallPlotViolinPlot
    \/ CallCompareScoreDistributionsOfDashboard
    \/ CallPlotConfigScatter
    \/ CallPlotTopBottomConfigsScatter
    \/ CallPlotConfigTopBottom
    \/ CallPlotMetricPercentiles
    \/ CallCompareMultipleExperiments
    \/ CallPlotLineScatterChart
    \/ CallFilterValidData

SpecPlots == InitPlots /\ [][NextPlots]_vars

\* ------------------------------- the dashboard's run_pairwise_stat_tests

\* frontend.py lines 254-258: the local frame of the dashboard's copy.
\* dropna(...).copy(), then the np.isfinite mask, then to_numeric.
frontend_PairwiseFrame(d) ==
    LET d1 == DropNa(d)
    IN IF ObjectDtype(d1)
       THEN [raised |-> TRUE, frame |-> <<>>]
       ELSE [raised |-> FALSE, frame |-> Coerce(FiniteRows(d1))]

\* frontend.py line 261: configs = df[group_col].unique()
frontend_Configs(frame) == Unique(GroupColumn(frame))

\* Mutant: the dashboard's copy takes Welch's test only when asked for
\* "ttest", and Mann-Whitney for everything else.
frontend_TestResultByTtest(test_type, x, y) ==
    IF test_type = "ttest"
    THEN [stat |-> WelchStatistic(x, y), pval |-> WelchPValue(x, y)]
    ELSE [stat |-> MannWhitneyStatistic(x, y), pval |-> MannWhitneyPValue(x, y)]

\* frontend.py lines 277-281: the chosen test.
frontend_TestResult(test_type, x, y) ==
    IF test_type = "mannwhitney"
    THEN [stat |-> MannWhitneyStatistic(x, y), pval |-> MannWhitneyPValue(x, y)]
    ELSE [stat |-> WelchStatistic(x, y), pval |-> WelchPValue(x, y)]

\* frontend.py lines 283-294: is_significant = pval < alpha, and the record.
frontend_PairRecord(cfg_i, cfg_j, data_i, data_j, alpha, test_type) ==
    LET t == frontend_TestResult(test_type, Values(data_i), Values(data_j))
        is_significant == Less(t.pval, alpha)
    IN [Config_A |-> cfg_i, Config_B |-> cfg_j,
        N_A |-> Len(data_i), N_B |-> Len(data_j),
        Test_Statistic |-> t.stat, pvalue |-> t.pval,
        Significant |-> is_significant]

\* frontend.py lines 266-294: for j in range(i + 1, len(configs)).
RECURSIVE frontend_InnerLoop(_, _, _, _, _, _, _)
frontend_InnerLoop(frame, configs, i, j, alpha, test_type, results) ==
    IF j > Len(configs) THEN results
    ELSE LET cfg_i == configs[i]
             cfg_j == configs[j]
             data_i == Sample(frame, cfg_i)
             data_j == Sample(frame, cfg_j)
         IN frontend_InnerLoop(frame, configs, i, j + 1, alpha, test_type,
                IF data_i = <<>> \/ data_j = <<>> THEN results
                ELSE Append(results,
                        frontend_PairRecord(cfg_i, cfg_j, data_i, data_j,
                                            alpha, test_type)))

\* frontend.py line 265: for i in range(len(configs))
RECURSIVE frontend_OuterLoop(_, _, _, _, _, _)
frontend_OuterLoop(frame, configs, i, alpha, test_type, results) ==
    IF i > Len(configs) THEN results
    ELSE frontend_OuterLoop(frame, configs, i + 1, alpha, test_type,
            frontend_InnerLoop(frame, configs, i, i + 1, alpha, test_type,
                               results))

\* frontend.py lines 226-296: the dashboard's copy of the routine.
frontend_run_pairwise_stat_tests(d, alpha, test_type) ==
    LET f == frontend_PairwiseFrame(d)
    IN IF f.raised
       THEN [outcome |-> "raised", error |-> "TypeError", result |-> <<>>]
       ELSE [outcome |-> "returned", error |-> "none",
             result |-> frontend_OuterLoop(f.frame, frontend_Configs(f.frame),
                                           1, alpha, test_type, <<>>)]

\* ---------------------------------------------------- the dashboard script
\* One run of src/frontend.py from top to bottom: Streamlit runs the whole
\* script at every interaction of the user. The storage is loaded at each run
\* (lines 22-26), which may fail; the frame is the results_df of the selected
\* experiment,
\* which mlos_bench, outside this repository, builds from the database at
\* each access, so that what a panel assigns into its frame does not reach
\* storage.experiments[...].results_df of a later panel or run.

\* The cells and the frames of the experiment shown.
DashCells == {Num(1), Num(2), StrCell}

\* A trial of the first configuration scored 1 and one of the second 2,
\* unless its score is a string.
DashRows ==
    {r \in [grp : PlotConfigIds, val : DashCells] :
        r.val \in {StrCell, IF r.grp = "c1" THEN Num(1) ELSE Num(2)}}

DashFrames == UNION {[1..n -> DashRows] : n \in 0..MaxTrials}

\* How the backend answers a request: status 200, another status, or no
\* connection (requests raises ConnectionError).
BackendAnswers == {"200", "500", "unreachable"}

\* What GET /experiments returns with status 200.
BackendExperiments == <<"e1", "e2">>

FetchFailedMessage == "Failed to fetch experiments"

ExplanationFailedMessage == "Failed to get explanation"

ExplanationPrompt == "Click the button to fetch the experiment explanation."

ExplanationNotAvailable == "Experiment explanation not available."

BackendExplanation == "explanation"

NoResultColumnsMessage == "No columns found that start with 'result'."

NoPairsMessage == "No pairs or no valid data to compare."

StorageErrorMessage == "Error loading storage configuration"

StorageNotLoadedMessage == "Storage configuration not loaded. Cannot display experiments."

StWarning(text) == [call |-> "warning", text |-> text]

StWrite(text) == [call |-> "write", text |-> text]

\* Lines 38-45, under @st.cache_data: a value stored for the call is
\* returned without running the function, with the elements the function
\* wrote replayed; otherwise the function runs, one request is sent, and
\* what it returns is stored. An exception stores nothing.
get_experiments(c, answer) ==
    IF c.hit
    THEN [raised |-> FALSE, value |-> c.value, st |-> c.st, cache |-> c,
          requests |-> 0]
    ELSE CASE answer = "unreachable" ->
                [raised |-> TRUE, value |-> <<>>, st |-> <<>>, cache |-> c,
                 requests |-> 1]
           [] answer = "200" ->
                [raised |-> FALSE, value |-> BackendExperiments, st |-> <<>>,
                 cache |-> [hit |-> TRUE, value |-> BackendExperiments,
                            st |-> <<>>],
                 requests |-> 1]
           [] OTHER ->
                [raised |-> FALSE, value |-> <<>>,
                 st |-> <<StError(FetchFailedMessage)>>,
                 cache |-> [hit |-> TRUE, value |-> <<>>,
                            st |-> <<StError(FetchFailedMessage)>>],
                 requests |-> 1]

\* Lines 57-65.
get_experiment_explanation(answer) ==
    CASE answer = "unreachable" -> [raised |-> TRUE, value |-> "", st |-> <<>>]
      [] answer = "200" -> [raised |-> FALSE, value |-> BackendExplanation, st |-> <<>>]
      [] OTHER -> [raised |-> FALSE, value |-> "",
                   st |-> <<StError(ExplanationFailedMessage)>>]

\* The buttons of the page. st.button is true only in the run that its click
\* started, so at most one button is pressed in a run.
Presses == {"none", "explain", "pairwise"}

\* The parts of the panels that are calls of plotly, matplotlib, mlos_viz or
\* of storage and may raise for reasons outside this model: at most one of
\* them fails in a run.
ExternalFailures == {"none", "tab1", "tab3", "tab4", "tab5", "tab6", "tab9"}

\* Lines 1342-1347: both selectboxes start at the first configuration id.
SelectedConfig(d) == IF d = <<>> THEN "none" ELSE d[1].grp

\* Lines 1335-1361: the three try blocks of "Compare Configurations". The
\* plots of the first block show st.error and return; the second block
\* catches what compare_score_distributions raises.
tab5_raised(d, cols, fails) ==
    \/ fails = "tab5"
    \/ frontend_compare_score_distributions_cols(
           d, cols, SelectedConfig(d), SelectedConfig(d)).outcome = "raised"

\* Lines 1390-1399: the explanation is fetched when the button was pressed;
\* an exception of the request is caught.
tab7_panel(pressed, answer) ==
    IF pressed # "explain"
    THEN [request |-> "none", raised |-> FALSE, explanation |-> ExplanationPrompt,
          st |-> <<>>]
    ELSE LET e == get_experiment_explanation(answer)
         IN IF e.raised
            THEN [request |-> answer, raised |-> TRUE,
                  explanation |-> ExplanationNotAvailable, st |-> <<>>]
            ELSE [request |-> answer, raised |-> FALSE,
                  explanation |-> e.value, st |-> e.st]

\* Mutant: the tests run at every run of the script, pressed or not.
RunPairwiseTestsAlways(pressed) == TRUE

\* Line 1437: if st.button("Run Pairwise Tests")
RunPairwiseTests(pressed) == pressed = "pairwise"

\* Line 1456: significant_pairs = results_df[results_df["Significant"] == True]
significant_pairs(results_df) ==
    SelectSeq(results_df, LAMBDA record : record.Significant = TRUE)

\* Lines 1456-1463: the significant pairs, or the note that there are none.
SignificantPairs(result) ==
    IF significant_pairs(result) # <<>>
    THEN StWrite("significant_pairs")
    ELSE [call |-> "info", text |-> "No significant differences found"]

\* Lines 1404-1463, "Statistically Significant". The call of
\* run_pairwise_stat_tests (1441) is in no try block; alpha is the value of
\* the number input.
tab8_panel(d, cols, pressed, test_type) ==
    IF TargetCol \notin cols
    THEN [st |-> <<StWarning(NoResultColumnsMessage)>>, calls |-> 0,
          raised |-> "none", result_cols |-> FALSE,
          table |-> <<>>, significant |-> <<>>]
    ELSE IF ~RunPairwiseTests(pressed)
    THEN [st |-> <<>>, calls |-> 0, raised |-> "none", result_cols |-> TRUE,
          table |-> <<>>, significant |-> <<>>]
    ELSE LET r == frontend_run_pairwise_stat_tests(d, DefaultAlpha, test_type)
         IN IF r.outcome = "raised"
            THEN [st |-> <<StWrite("Performing pairwise")>>, calls |-> 1,
                  raised |-> r.error, result_cols |-> TRUE,
                  table |-> <<>>, significant |-> <<>>]
            ELSE IF r.result = <<>>
            THEN [st |-> <<StWrite("Performing pairwise"), StWarning(NoPairsMessage)>>,
                  calls |-> 1, raised |-> "none", result_cols |-> TRUE,
                  table |-> <<>>, significant |-> <<>>]
            ELSE [st |-> <<StWrite("Performing pairwise"), StChart("dataframe"),
                           StWrite("Significant Pairs:"), SignificantPairs(r.result)>>,
                  calls |-> 1, raised |-> "none", result_cols |-> TRUE,
                  table |-> r.result, significant |-> significant_pairs(r.result)]

\* Lines 1464-1497, "Parallel Plot": config_columns and result_columns are
\* bound in tab3 (1056-1057), which an empty frame skips (1050), so that
\* line 1472 raises NameError; the plot is in no try block.
tab9_raised(d, fails) ==
    IF d = <<>> THEN "NameError"
    ELSE IF fails = "tab9" THEN "External"
    ELSE "none"

\* What a panel shows after a run: "content", a "message" in place of what
\* failed or is not there to show, the "exception" that stopped the script
\* in it, nothing because the script stopped before it ("missing"), or
\* nothing because the branch of the script that holds it was not taken
\* ("skipped": tab9 is written inside the else branch of line 1412).

\* A panel whose body is in a try block: the message of the except branch
\* in place of what failed.
Guarded(failed) == IF failed THEN "message" ELSE "content"

\* Lines 22-26: from_config either returns the storage or raises; the
\* exception is caught, shown with st.error, and storage is None.
StorageLoads == {"loaded", "failed"}

storage_st(load) ==
    IF load = "failed" THEN <<StError(StorageErrorMessage)>> ELSE <<>>

\* The script from line 22 to the end: the page it leaves and the cache.
\* get_experiments (line 68) is called whatever from_config did; the panels
\* are in the branch of line 1005, the warning of line 1501 in its else.
ScriptPage(d, cols, load, backend, pressed, fails, g, t7, t8, t9) ==
    LET start == [NoPage EXCEPT !.storage = IF load = "failed" THEN "none" ELSE "loaded",
                                !.storage_st = storage_st(load),
                                !.backend = backend,
                                !.list_request = IF g.requests = 0 THEN "none"
                                                 ELSE backend,
                                !.list_requests = g.requests]
    IN IF g.raised
       THEN [cache |-> g.cache,
             page |-> [start EXCEPT !.uncaught = "ConnectionError"]]
       ELSE IF load = "failed"
       THEN [cache |-> g.cache,
             page |->
               [start EXCEPT
                  !.experiment_ids = g.value,
                  !.banner = g.st,
                  !.storage_st = Append(@, StWarning(StorageNotLoadedMessage)),
                  !.panels = [p \in Panels |-> "skipped"]]]
       ELSE [cache |-> g.cache,
             page |->
               [start EXCEPT
                  !.experiment_ids = g.value,
                  !.banner = g.st,
                  !.storage_read = TRUE,
                  !.pressed = pressed,
                  !.explain_request = t7.request,
                  !.explanation = t7.explanation,
                  !.tab7 = t7.st,
                  !.tab8 = t8.st,
                  !.pairwise_calls = t8.calls,
                  !.pairwise_table = t8.table,
                  !.significant_pairs = t8.significant,
                  !.uncaught = IF t8.raised # "none" THEN t8.raised
                               ELSE IF ~t8.result_cols THEN "none"
                               ELSE t9,
                  !.raised =
                      {p \in {"tab1", "tab4", "tab6"} : fails = p}
                      \cup (IF fails = "tab3" /\ d # <<>> THEN {"tab3"} ELSE {})
                      \cup (IF tab5_raised(d, cols, fails) THEN {"tab5"} ELSE {})
                      \cup (IF t7.raised THEN {"tab7"} ELSE {})
                      \cup (IF t8.raised # "none" THEN {"tab8"} ELSE {})
                      \cup (IF t8.raised = "none" /\ t8.result_cols /\ t9 # "none"
                            THEN {"tab9"} ELSE {}),
                  !.panels =
                      [p \in Panels |->
                         CASE p = "tab3" -> Guarded(fails = p \/ d = <<>>)
                           [] p = "tab5" -> Guarded(tab5_raised(d, cols, fails))
                           [] p = "tab7" -> Guarded(t7.raised \/ t7.st # <<>>)
                           [] p = "tab8" ->
                                IF t8.raised # "none" THEN "exception"
                                ELSE Guarded(~t8.result_cols)
                           [] p = "tab9" ->
                                IF t8.raised # "none" THEN "missing"
                                ELSE IF ~t8.result_cols THEN "skipped"
                                ELSE IF t9 # "none" THEN "exception"
                                ELSE "content"
                           [] OTHER -> Guarded(fails = p)]]]

\* One run: the list of experiments, then the panels, each evaluated once.
RunScript(d, cols, c, load, backend, pressed, test_type, fails) ==
    CHOOSE r \in {ScriptPage(d, cols, load, backend, pressed, fails, g, t7, t8, t9) :
                     g \in {get_experiments(c, backend)},
                     t7 \in {tab7_panel(pressed, backend)},
                     t8 \in {tab8_panel(d, cols, pressed, test_type)},
                     t9 \in {tab9_raised(d, fails)}} : TRUE

\* The experiment as storage holds it, before the first run of the script.
InitDashboard ==
    /\ df \in DashFrames
    /\ columns \in {AllColumns, AllColumns \ {TargetCol}}
    /\ TargetCol \notin columns => \A i \in DOMAIN df : df[i].val = NoColumnCell
    /\ cur = NoCall
    /\ cache = NoCache
    /\ page = NoPage
    /\ heap = NoHeap

\* What the user and the panels can do in a run, given how the load of the
\* storage ended: without storage there is no button to press and no panel
\* to fail, and the test selected is read only after a press of "Run
\* Pairwise Tests".
PressesOf(load) == IF load = "failed" THEN {"none"} ELSE Presses

TestTypesOf(pressed) == IF pressed = "pairwise" THEN TestTypes ELSE {"ttest"}

ExternalFailuresOf(load) == IF load = "failed" THEN {"none"} ELSE ExternalFailures

\* The user acts on the page and Streamlit runs the script.
Render ==
    \E load \in StorageLoads, backend \in BackendAnswers :
      \E pressed \in PressesOf(load), fails \in ExternalFailuresOf(load) :
        \E test_type \in TestTypesOf(pressed) :
        \E r \in {RunScript(df, columns, cache, load, backend, pressed, test_type,
                            fails)} :
           /\ page' = r.page
           /\ cache' = r.cache
           /\ UNCHANGED <<df, columns, cur, heap>>

NextDashboard == Render

SpecDashboard == InitDashboard /\ [][NextDashboard]_vars

\* ----------------------------------- the two copies called with any test

\* The values a caller passes as test_type: the two the docstrings name and
\* one that neither routine knows.
UnknownTestType == "anova"

AnyTestTypes == TestTypes \cup {UnknownTestType}

\* The frames the two copies are called on: three groups, so that a table
\* can hold several pairs; finite, missing and string cells.
TestCells == {Num(1), Num(2), NaNCell, StrCell}

TestRows == [grp : ConfigIds, val : TestCells]

\* Frames of two groups with two finite observations each, the smallest on
\* which Welch's test has a value.
TwoByTwoFrames ==
    {<<[grp |-> "c1", val |-> Num(a)], [grp |-> "c2", val |-> Num(c)],
       [grp |-> "c1", val |-> Num(b)], [grp |-> "c2", val |-> Num(d)]>> :
        a \in Nums, b \in Nums, c \in Nums, d \in Nums}

TestFrames == UNION {[1..n -> TestRows] : n \in 0..MaxRows} \cup TwoByTwoFrames

InitTests ==
    /\ df \in TestFrames
    /\ cur = NoCall
    /\ columns = AllColumns
    /\ cache = NoCache
    /\ page = NoPage
    /\ heap = NoHeap

\* A call of mlos_explorer's run_pairwise_stat_tests with any test_type.
CallLibraryPairwise ==
    \E alpha \in Alphas, test_type \in AnyTestTypes :
        \E r \in {run_pairwise_stat_tests(df, alpha, test_type)} :
           /\ cur' = [NoCall EXCEPT !.fn = "run_pairwise_stat_tests",
                                    !.module = "mlos_explorer",
                                    !.alpha = alpha, !.test_type = test_type,
                                    !.input = df, !.outcome = r.outcome,
                                    !.error = r.error, !.result = r.result]
           /\ df' = CallerFrameAfterPairwise(df)
           /\ UNCHANGED <<columns, cache, page, heap>>

\* A call of the dashboard's run_pairwise_stat_tests with any test_type.
CallFrontendPairwise ==
    \E alpha \in Alphas, test_type \in AnyTestTypes :
        \E r \in {frontend_run_pairwise_stat_tests(df, alpha, test_type)} :
           /\ cur' = [NoCall EXCEPT !.fn = "run_pairwise_stat_tests",
                                    !.module = "frontend",
                                    !.alpha = alpha, !.test_type = test_type,
                                    !.input = df, !.outcome = r.outcome,
                                    !.error = r.error, !.result = r.result]
           /\ df' = CallerFrameAfterPairwise(df)
           /\ UNCHANGED <<columns, cache, page, heap>>

NextTests ==
    \/ CallLibraryPairwise
    \/ CallFrontendPairwise

SpecTests == InitTests /\ [][NextTests]_vars

\* ------------------------------------------------- vocabulary of the claims

\* A valid observation: a finite, non-missing number.
ValidObservation(c) == c.k = "num"

\* The rows of frame d in group g whose target is a valid observation.
ValidRowsOf(d, g) == {i \in DOMAIN d : d[i].grp = g /\ ValidObservation(d[i].val)}

ValidCount(d, g) == Cardinality(ValidRowsOf(d, g))

\* The group values with at least one valid observation.
NonEmptyGroups(d) == {g \in ConfigIds : ValidCount(d, g) > 0}

\* The group values that have rows, none of them a valid observation.
EmptyGroups(d) ==
    {g \in ConfigIds : ValidCount(d, g) = 0 /\ \E i \in DOMAIN d : d[i].grp = g}

\* The row where group g first appears among the valid rows.
FirstValidRow(d, g) == CHOOSE i \in ValidRowsOf(d, g) : \A j \in ValidRowsOf(d, g) : i <= j

\* Group id has no row with a numeric target: it is absent from the frame, or
\* all its targets are missing or strings.
NoNumericObservation(d, id) ==
    \A i \in DOMAIN d : d[i].grp = id => d[i].val.k \in {"nan", "str"}

PairwiseCall == cur.fn = "run_pairwise_stat_tests"

CompareCall == cur.fn = "compare_score_distributions"

\* What a record says of the pairs evaluated: all but the test's own output.
PairsReported(result) ==
    [i \in DOMAIN result |->
        <<result[i].Config_A, result[i].Config_B, result[i].N_A, result[i].N_B>>]

\* The dashboard's plotting functions that take a target column.
TargetColumnPlots ==
    {"plot_whisker_plots", "compare_whisker_plots", "compare_score_distributions",
     "plot_violin_plot", "plot_config_scatter", "plot_top_bottom_configs_scatter",
     "plot_config_top_bottom"}

\* The columns a plotting function reads from a frame of columns cols.
RequiredColumns(fn, cols) ==
    CASE fn = "plot_top_bottom_configs_scatter" -> {"trial_id", TargetCol}
      [] fn = "plot_config_top_bottom" ->
            {TargetCol} \cup (IF ConfigColumns(cols) # {}
                              THEN {"tunable_config_id"} ELSE {})
      [] OTHER -> {"tunable_config_id", TargetCol}

\* The panels above "Statistically Significant" in the script.
PanelsBeforeTab8 == {"tab1", "tab3", "tab4", "tab5", "tab6", "tab7"}

\* ------------------------------------------------------------------ claims

\* C1: a call of run_pairwise_stat_tests reports exactly one record for every
\* unordered pair of distinct group values that both have a valid observation,
\* no record with the same group twice, and so C(k,2) records for k non-empty
\* groups.
C1_OneRecordPerPair ==
    PairwiseCall =>
        LET k == Cardinality(NonEmptyGroups(cur.input))
        IN /\ \A a, b \in NonEmptyGroups(cur.input) :
                a # b =>
                    Cardinality({i \in DOMAIN cur.result :
                        {cur.result[i].Config_A, cur.result[i].Config_B} = {a, b}}) = 1
           /\ \A i \in DOMAIN cur.result : cur.result[i].Config_A # cur.result[i].Config_B
           /\ 2 * Len(cur.result) = k * (k - 1)

\* C2: in every record of the table, N_A and N_B are the numbers of valid
\* observations of Config_A and Config_B in the frame the call was given.
C2_SampleSizes ==
    PairwiseCall =>
        \A i \in DOMAIN cur.result :
            /\ cur.result[i].N_A = ValidCount(cur.input, cur.result[i].Config_A)
            /\ cur.result[i].N_B = ValidCount(cur.input, cur.result[i].Config_B)

\* A returned table with a record for a group that also has an invalid row.
C2_Witness ==
    /\ PairwiseCall
    /\ cur.outcome = "returned"
    /\ \E i \in DOMAIN cur.result, j \in DOMAIN cur.input :
          /\ cur.input[j].grp = cur.result[i].Config_A
          /\ ~ValidObservation(cur.input[j].val)

\* C3: in every record, Significant is true exactly when the p-value is a
\* number strictly below the alpha the caller passed.
C3_SignificantIffBelowAlpha ==
    PairwiseCall =>
        \A i \in DOMAIN cur.result :
            cur.result[i].Significant
                <=> (~cur.result[i].pvalue.nan /\ cur.result[i].pvalue.v < cur.alpha)

\* One table, at the default alpha, with a p-value of 0.049 that is
\* significant and a p-value above alpha that is not.
C3_Witness ==
    /\ PairwiseCall
    /\ cur.alpha = DefaultAlpha
    /\ \E i, j \in DOMAIN cur.result :
          /\ cur.result[i].pvalue = P(49) /\ cur.result[i].Significant
          /\ cur.result[j].pvalue.v > cur.alpha /\ ~cur.result[j].Significant

\* C4: no record names a group without a valid observation, and a frame with
\* such a group is handled silently: the call returns, without an error.
C4_EmptyGroupsSkippedSilently ==
    PairwiseCall =>
        /\ \A i \in DOMAIN cur.result :
              /\ ValidCount(cur.input, cur.result[i].Config_A) > 0
              /\ ValidCount(cur.input, cur.result[i].Config_B) > 0
        /\ EmptyGroups(cur.input) # {} => cur.outcome = "returned"

\* C5: a row whose target is missing, non-numeric or infinite is dropped: it
\* is counted in no sample and the call does not fail.
C5_InvalidRowsDroppedWithoutFailure ==
    PairwiseCall =>
        /\ cur.outcome = "returned"
        /\ \A i \in DOMAIN cur.result :
              /\ cur.result[i].N_A = ValidCount(cur.input, cur.result[i].Config_A)
              /\ cur.result[i].N_B = ValidCount(cur.input, cur.result[i].Config_B)

\* C6: the records are in pair enumeration order. With the groups listed by
\* their first appearance among the valid rows, Config_A comes before
\* Config_B in every record, and the records ascend by Config_A's place and
\* then by Config_B's.
C6_PairEnumerationOrder ==
    PairwiseCall =>
        LET at(g) == FirstValidRow(cur.input, g)
        IN /\ \A i \in DOMAIN cur.result :
                /\ cur.result[i].Config_A \in NonEmptyGroups(cur.input)
                /\ cur.result[i].Config_B \in NonEmptyGroups(cur.input)
                /\ at(cur.result[i].Config_A) < at(cur.result[i].Config_B)
           /\ \A i, j \in DOMAIN cur.result :
                i < j =>
                    \/ at(cur.result[i].Config_A) < at(cur.result[j].Config_A)
                    \/ /\ cur.result[i].Config_A = cur.result[j].Config_A
                       /\ at(cur.result[i].Config_B) < at(cur.result[j].Config_B)

\* A table of three records whose first group is not the smallest id.
C6_Witness ==
    /\ PairwiseCall
    /\ Len(cur.result) = 3
    /\ cur.result[1].Config_A = "c3"
    /\ cur.result[1].Config_B = "c1"

\* C7: on the same frame and alpha, the other test type ends the same way and
\* reports the same sequence of (Config_A, Config_B, N_A, N_B).
C7_SamePairsForBothTests ==
    PairwiseCall =>
        \A other \in TestTypes :
            LET r == run_pairwise_stat_tests(cur.input, cur.alpha, other)
            IN /\ r.outcome = cur.outcome
               /\ PairsReported(r.result) = PairsReported(cur.result)

\* A Mann-Whitney table with a pair whose Welch statistic does not exist, so
\* that the two tests differ in what they compute for it.
C7_Witness ==
    /\ PairwiseCall
    /\ cur.test_type = "mannwhitney"
    /\ \E i \in DOMAIN cur.result :
          /\ cur.result[i].N_A = 1
          /\ cur.result[i].Test_Statistic.test = "mwu"
          /\ ~cur.result[i].pvalue.nan

\* C8: after a call of run_pairwise_stat_tests, returned or raised, the
\* caller's frame is the frame the call was given.
C8_FrameUnchanged == PairwiseCall => df = cur.input

\* A call that raised, and so had a string in the target column, after which
\* the frame still holds a missing value too.
C8_Witness ==
    /\ PairwiseCall
    /\ cur.outcome = "raised"
    /\ \E i \in DOMAIN df : df[i].val.k = "nan"

C10_MissingGroupReported ==
    (/\ CompareCall
     /\ \/ NoNumericObservation(cur.input, cur.config_id_1)
        \/ NoNumericObservation(cur.input, cur.config_id_2))
    => /\ cur.figure = NoFigure
       /\ cur.module = "mlos_explorer" =>
             /\ cur.outcome = "raised"
             /\ cur.error = "ValueError"
             /\ cur.message = MissingGroupMessage
             /\ cur.st = <<>>
       /\ cur.module = "frontend" =>
             /\ cur.outcome = "returned"
             /\ cur.st = <<[call |-> "error", text |-> MissingGroupMessage]>>

\* mlos_explorer's copy raised for a first id whose targets are all strings
\* while the second id has a number.
C10_Witness ==
    /\ CompareCall
    /\ cur.module = "mlos_explorer"
    /\ cur.message = MissingGroupMessage
    /\ cur.config_id_1 # cur.config_id_2
    /\ NoNumericObservation(cur.input, cur.config_id_1)
    /\ \E i \in DOMAIN cur.input :
          cur.input[i].grp = cur.config_id_1 /\ cur.input[i].val.k = "str"
    /\ ~NoNumericObservation(cur.input, cur.config_id_2)

\* C11: when both selected ids have at least one valid numeric observation,
\* mlos_explorer's compare_score_distributions returns a figure of exactly
\* two series, named for config_id_1 and then config_id_2, on one grid of 500
\* points from the minimum to the maximum of the two groups' values.
C11_FigureWhenBothGroupsHaveData ==
    (/\ CompareCall
     /\ cur.module = "mlos_explorer"
     /\ ValidCount(cur.input, cur.config_id_1) > 0
     /\ ValidCount(cur.input, cur.config_id_2) > 0)
    => /\ cur.outcome = "returned"
       /\ cur.figure.made
       /\ cur.figure.names = <<cur.config_id_1, cur.config_id_2>>
       /\ cur.figure.points = GridPoints
       /\ \A i \in ValidRowsOf(cur.input, cur.config_id_1)
                   \cup ValidRowsOf(cur.input, cur.config_id_2) :
             /\ cur.figure.x_min <= cur.input[i].val.v
             /\ cur.input[i].val.v <= cur.figure.x_max

\* C15: a call of a function of mlos_explorer leaves the caller's frame as it
\* was given.
C15_LibraryCallsArePure == cur.module = "mlos_explorer" => df = cur.input

\* C17: a returned call of run_pairwise_stat_tests has put every valid row in
\* the sample of exactly one enumerated group value, and the sizes of the
\* samples sum to the number of valid rows.
C17_GroupsPartitionValidRows ==
    (PairwiseCall /\ cur.outcome = "returned") =>
        LET frame == PairwiseFrame(cur.input).frame
            configs == Configs(frame)
        IN /\ \A r \in DOMAIN frame :
                 Cardinality({c \in DOMAIN configs :
                                GroupEq(frame[r].grp, configs[c])}) = 1
           /\ Sum([c \in DOMAIN configs |-> Len(Sample(frame, configs[c]))])
                 = Len(frame)

\* C16: a call of a function of the dashboard on the frame fetched from
\* storage leaves the frame as storage supplied it: no value changed, no
\* column added.
C16_StorageFrameReadOnly ==
    cur.module = "frontend" => (df = cur.input /\ columns = cur.input_columns)

\* C19: a plotting function of the dashboard that is given a frame without
\* one of the columns it reads shows one inline error and no chart, returns,
\* and leaves the frame and its columns as they were.
C19_AbsentColumnReportedInline ==
    (/\ cur.module = "frontend"
     /\ cur.fn \in TargetColumnPlots
     /\ ~(RequiredColumns(cur.fn, cur.input_columns) \subseteq cur.input_columns))
    => /\ cur.outcome = "returned"
       /\ Len(cur.st) = 1
       /\ cur.st[1].call = "error"
       /\ df = cur.input
       /\ columns = cur.input_columns

\* C20: no row of the frame filter_valid_data returns has a missing value or
\* a value that is not a number in the requested column.
C20_FilteredRowsAreNumeric ==
    (cur.fn = "filter_valid_data" /\ cur.outcome = "returned") =>
        \A i \in DOMAIN cur.result : cur.result[i].k \in {"num", "inf"}

\* C12: in a run of the script, a panel in which an error was raised shows
\* it in its place (as a message, or as the exception), and every other
\* panel is rendered.
C12_PanelsDegradeIndependently ==
    \A p \in page.raised :
        /\ page.panels[p] \in {"message", "exception"}
        /\ \A q \in Panels \ {p} : page.panels[q] # "missing"

\* C13: a request that the backend did not answer with 200, or could not
\* answer, does not stop the script and is reported on the page: the
\* experiment list is empty with a message and the panels are rendered; the
\* explanation is empty with a message, or the 'not available' text.
C13_BackendFailureReportedInline ==
    /\ page.list_request \in {"500", "unreachable"} =>
          /\ page.uncaught # "ConnectionError"
          /\ page.experiment_ids = <<>>
          /\ page.banner # <<>>
          /\ \A p \in PanelsBeforeTab8 : page.panels[p] # "missing"
    /\ page.explain_request \in {"500", "unreachable"} =>
          /\ page.uncaught # "ConnectionError"
          /\ \/ page.explanation = "" /\ page.tab7 # <<>>
             \/ page.explanation = ExplanationNotAvailable
          /\ \A p \in PanelsBeforeTab8 : page.panels[p] # "missing"

\* C14: the run after a run in which the request for the experiment list
\* was answered with a status other than 200 has the backend's list when the
\* backend answers 200, and no run sends the request more than once.
C14_NoPersistedFailure ==
    [][/\ page'.list_requests <= 1
       /\ (page.list_request = "500" /\ page'.backend = "200")
             => page'.experiment_ids = BackendExperiments]_vars

\* C18: a run of the script calls run_pairwise_stat_tests at most once, and
\* only when "Run Pairwise Tests" was pressed; without the press the panel
\* shows no results table and no 'no pairs' warning.
C18_OneComputationPerPress ==
    /\ page.pairwise_calls <= 1
    /\ page.pairwise_calls = 1 => page.pressed = "pairwise"
    /\ page.pressed # "pairwise" =>
          /\ page.pairwise_calls = 0
          /\ \A i \in DOMAIN page.tab8 :
                /\ page.tab8[i].call # "dataframe"
                /\ page.tab8[i] # StWarning(NoPairsMessage)

\* A run with the button pressed in which the tests ran once and the table
\* was shown.
C18_Witness ==
    /\ page.pressed = "pairwise"
    /\ page.pairwise_calls = 1
    /\ \E i \in DOMAIN page.tab8 : page.tab8[i].call = "dataframe"

\* The call of the state made again, on the same frame with the same alpha,
\* by the same copy of the routine with another test_type, or by the other
\* copy with the same test_type.
SameCopyWith(test_type) ==
    IF cur.module = "frontend"
    THEN frontend_run_pairwise_stat_tests(cur.input, cur.alpha, test_type)
    ELSE run_pairwise_stat_tests(cur.input, cur.alpha, test_type)

OtherCopy ==
    IF cur.module = "frontend"
    THEN run_pairwise_stat_tests(cur.input, cur.alpha, cur.test_type)
    ELSE frontend_run_pairwise_stat_tests(cur.input, cur.alpha, cur.test_type)

\* C21: the test is chosen by test_type: every record of a "mannwhitney"
\* call holds the Mann-Whitney U statistic and every record of any other
\* call, one with an unrecognised test_type included, is the record Welch's
\* t-test gives; the test_type changes neither whether the call raises nor
\* which pairs are in the table.
C21_TestChosenByCaller ==
    PairwiseCall =>
        /\ \A i \in DOMAIN cur.result :
              cur.result[i].Test_Statistic.test =
                 IF cur.test_type = "mannwhitney" THEN "mwu" ELSE "welch"
        /\ cur.test_type # "mannwhitney"
              => cur.result = SameCopyWith("ttest").result
        /\ \A test_type \in AnyTestTypes :
              /\ SameCopyWith(test_type).outcome = cur.outcome
              /\ PairsReported(SameCopyWith(test_type).result)
                    = PairsReported(cur.result)

\* A call with an unrecognised test_type that returned a record with a
\* p-value below alpha.
C21_Witness ==
    /\ PairwiseCall
    /\ cur.test_type = UnknownTestType
    /\ \E i \in DOMAIN cur.result : cur.result[i].Significant

\* C29: the dashboard's run_pairwise_stat_tests and mlos_explorer's are
\* equivalent: on the same frame, alpha and test_type both raise, or both
\* return the same records in the same order.
C29_CopiesEquivalent ==
    PairwiseCall =>
        /\ OtherCopy.outcome = cur.outcome
        /\ OtherCopy.error = cur.error
        /\ OtherCopy.result = cur.result

\* A call of the dashboard's copy that returned two records or more, one of
\* them significant.
C29_Witness ==
    /\ PairwiseCall
    /\ cur.module = "frontend"
    /\ Len(cur.result) >= 2
    /\ \E i \in DOMAIN cur.result : cur.result[i].Significant

\* The run of the script in which the button "Run Pairwise Tests" acted: the
\* storage was loaded, the script reached the panel and the frame has a
\* result column.
PairwisePressed ==
    /\ page.storage = "loaded"
    /\ page.pressed = "pairwise"
    /\ TargetCol \in columns

\* C23: after a press of "Run Pairwise Tests" on data with fewer than two
\* groups with valid observations the panel shows the warning 'No pairs or
\* no valid data to compare.' and neither the table nor the significant
\* pairs; when the table is not empty the section of the significant pairs
\* shows exactly its records with Significant true, or, when there are
\* none, the notice that no difference is significant.
C23_SignificancePanel ==
    PairwisePressed =>
        /\ Cardinality(NonEmptyGroups(df)) < 2
              => /\ page.tab8 = <<StWrite("Performing pairwise"),
                                  StWarning(NoPairsMessage)>>
                 /\ page.pairwise_table = <<>>
                 /\ page.significant_pairs = <<>>
        /\ page.pairwise_table # <<>>
              => /\ page.significant_pairs
                       = SelectSeq(page.pairwise_table, LAMBDA r : r.Significant)
                 /\ Len(page.tab8) = 4
                 /\ page.tab8[2] = StChart("dataframe")
                 /\ page.tab8[4] = IF page.significant_pairs # <<>>
                                   THEN StWrite("significant_pairs")
                                   ELSE [call |-> "info",
                                         text |-> "No significant differences found"]

\* The same, on the runs in which the call of run_pairwise_stat_tests did
\* not raise.
C23_WhenCallReturns == "tab8" \notin page.raised => C23_SignificancePanel

\* A run with the button pressed that shows a significant pair.
C23_SignificantShown == PairwisePressed /\ page.significant_pairs # <<>>

\* C24: when loading the storage configuration fails, the run shows the
\* error of the load and the warning 'Storage configuration not loaded',
\* reads nothing from storage and builds no panel and no selector: no tab,
\* no button acts, no explanation is requested and no test is run.
C24_StorageNotLoaded ==
    page.storage = "none" =>
        /\ page.storage_st = <<StError(StorageErrorMessage),
                               StWarning(StorageNotLoadedMessage)>>
        /\ page.uncaught = "none"
        /\ ~page.storage_read
        /\ \A p \in Panels : page.panels[p] = "skipped"
        /\ page.tab7 = <<>> /\ page.tab8 = <<>>
        /\ page.pressed = "none"
        /\ page.explain_request = "none"
        /\ page.pairwise_calls = 0

\* The same, on the runs that line 68 did not stop.
C24_WhenListFetched == page.uncaught # "ConnectionError" => C24_StorageNotLoaded

\* A run in which the load failed and the warning was shown.
C24_WarningShown ==
    /\ page.storage = "none"
    /\ \E i \in DOMAIN page.storage_st :
          page.storage_st[i] = StWarning(StorageNotLoadedMessage)

\* The columns plot_line_scatter_chart reads.
LineScatterColumns == {"trial_id", TargetCol, BenchmarkCol}

LineScatterCall == cur.module = "frontend" /\ cur.fn = "plot_line_scatter_chart"

\* C22: plot_line_scatter_chart, given a frame without trial_id, the target
\* column or the benchmark column, shows one inline error and no chart and
\* returns; it never raises for a missing column.
C22_MissingColumnReportedInline ==
    (LineScatterCall /\ ~(LineScatterColumns \subseteq cur.input_columns))
    => /\ cur.outcome = "returned"
       /\ cur.st = <<StError(TrialTargetOrBenchmarkMessage)>>

\* The same, for the two columns that line 440 looks for.
C22_TrialOrTargetMissing ==
    (LineScatterCall /\ ~({"trial_id", TargetCol} \subseteq cur.input_columns))
    => /\ cur.outcome = "returned"
       /\ cur.st = <<StError(TrialTargetOrBenchmarkMessage)>>

\* A call on a frame with all three columns that drew the chart.
C22_ChartDrawn ==
    /\ LineScatterCall
    /\ LineScatterColumns \subseteq cur.input_columns
    /\ cur.st = <<StChart("plotly_chart")>>

\* A constructor, called directly or by Service.new, that returned.
Constructed == cur.fn \in {"__init__", "new"} /\ cur.outcome = "returned"

\* C25: right after its construction with a parent, export() of a Service
\* holds every mix-in function of the parent's export() under the same
\* name; after a construction without a parent export() is empty.
C25_ChildStartsWithParentsMixins ==
    Constructed =>
        /\ export(heap, cur.instance).k = "dict"
        /\ cur.parent = NoParent => Exported(heap, cur.instance) = EmptyDict
        /\ cur.parent # NoParent =>
              /\ export(heap, cur.parent).k = "dict"
              /\ \A name \in Keys(Exported(heap, cur.parent)) :
                    Exported(heap, cur.instance)[name]
                      = Exported(heap, cur.parent)[name]

\* A Service just constructed with a parent that exports a mix-in.
C25_Witness ==
    /\ Constructed
    /\ cur.parent # NoParent
    /\ export(heap, cur.parent).k = "dict"
    /\ Keys(Exported(heap, cur.parent)) # {}

\* The dictionary register works with: the one passed, or the functions of
\* the list under their names.
Registered(services) ==
    IF services.k = "dict" THEN services.map ELSE ByName(services.fns, EmptyDict)

\* C26: every call of register returns and leaves export() a dictionary in
\* which each name just registered is bound to the function just given,
\* each other name is bound as it was before, and each name is also an
\* instance attribute bound to the same function.
C26_RegisterStep ==
    cur'.fn = "register" =>
        /\ cur'.outcome = "returned"
        /\ export(heap', cur'.svc).k = "dict"
        /\ \A name \in MixinNames :
              Exported(heap', cur'.svc)[name] =
                 IF Registered(cur'.services)[name] # Absent
                 THEN Registered(cur'.services)[name]
                 ELSE Exported(heap, cur'.svc)[name]
        /\ \A name \in Keys(Exported(heap', cur'.svc)) :
              heap'.obj[cur'.svc].__dict__[name] = Exported(heap', cur'.svc)[name]

C26_RegistryFollowsRegister == [][C26_RegisterStep]_vars

\* The same, for calls that register no function under the name _services
\* on a Service on which none was registered under it before.
C26_OtherNames ==
    [][(/\ cur'.fn = "register"
        /\ export(heap, cur'.svc).k = "dict"
        /\ Registered(cur'.services)["_services"] = Absent) => C26_RegisterStep]_vars

\* A call of register that gave a name a new function.
C26_Rebound ==
    /\ cur.fn = "register"
    /\ cur.outcome = "returned"
    /\ export(heap, cur.svc).k = "dict"
    /\ Exported(heap, cur.svc)["remote_exec"] = Function("g")

\* The pairs of a class and a class it is derived from or is.
Derived ==
    {<<"Service", "Service">>, <<"AzureVMService", "AzureVMService">>,
     <<"AzureVMService", "Service">>}

\* C27: what Service.new returns is a new instance of a class derived from
\* the class it was called on, holding the given config (an empty one for
\* None) and the given parent; when the name is that of a class not derived
\* from it the call raises AssertionError and the heap is as it was: no
\* object constructed, nothing registered.
C27_NewStep ==
    cur'.fn = "new" =>
        /\ cur'.outcome = "returned" =>
              /\ <<cur'.class, cur'.cls>> \in Derived
              /\ cur'.class = Resolve(cur'.class_name).class
              /\ cur'.instance = heap.count + 1
              /\ heap'.count = heap.count + 1
              /\ heap'.obj[cur'.instance].config =
                    (IF cur'.config = "None" THEN "{}" ELSE cur'.config)
              /\ heap'.obj[cur'.instance]._parent = cur'.parent
        /\ (/\ Resolve(cur'.class_name).class \in Classes
            /\ <<Resolve(cur'.class_name).class, cur'.cls>> \notin Derived)
              => /\ cur'.outcome = "raised"
                 /\ cur'.error = "AssertionError"
                 /\ heap' = heap

C27_NewReturnsDerivedOnly == [][C27_NewStep]_vars

\* Service.new on the derived class, given the name of the base class while
\* a Service with a mix-in exists: the assertion failed.
C27_Witness ==
    /\ cur.fn = "new"
    /\ cur.cls = "AzureVMService"
    /\ cur.class_name = "mlos_bench.environment.base_service.Service"
    /\ cur.error = "AssertionError"
    /\ cur.parent # NoParent
    /\ export(heap, cur.parent).k = "dict"
    /\ Keys(Exported(heap, cur.parent)) # {}

\* Service.new returned an instance of the derived class.
C27_Returned ==
    /\ cur.fn = "new"
    /\ cur.outcome = "returned"
    /\ cur.class = "AzureVMService"

\* C28: a call of register on one Service leaves export() of every other
\* Service as it was: what the parent registers after the child was
\* constructed does not reach the child, and what the child registers does
\* not reach the parent.
C28_OthersStep ==
    cur'.fn = "register" =>
        \A s \in 1..heap.count :
            s # cur'.svc =>
               /\ export(heap', s) = export(heap, s)
               /\ export(heap, s).k = "dict"
                     => Exported(heap', s) = Exported(heap, s)

C28_RegistrationIsSnapshot == [][C28_OthersStep]_vars

\* A parent registered a function its child does not have, and a child one
\* its parent does not have.
C28_Witness ==
    /\ cur.fn = "register"
    /\ cur.outcome = "returned"
    /\ \E s \in 1..heap.count :
          /\ cur.svc \in {s, heap.obj[s]._parent}
          /\ heap.obj[s]._parent # NoParent
          /\ export(heap, s).k = "dict"
          /\ export(heap, heap.obj[s]._parent).k = "dict"
          /\ Exported(heap, s) # Exported(heap, heap.obj[s]._parent)

====
